---- MODULE Spec2Model ----
(***************************************************************************)
(* Model of server/server.js: the Express handlers of the account backend  *)
(* (register with sponsor crediting, login, the auth middleware, the       *)
(* profile and the payment stub) over the User collection.                 *)
(*                                                                         *)
(* Every `await` of a handler is a point where other requests run, so each *)
(* handler is cut into one action per awaited store / bcrypt call; the     *)
(* synchronous code after an await belongs to the same action.             *)
(***************************************************************************)
EXTENDS Integers, Sequences, FiniteSets, TLC

(* ------------------------------ bounds -------------------------------- *)
\* registrations that may be started in one behaviour
MaxReg == 4
\* registrations that may be started in the behaviours of SpecLogin and SpecGuard
MaxAuthReg == 2
\* last day the clock reaches
MaxDay == 7

\* handlers of POST /api/auth/register that may be in flight together
RegSlots == {1, 2}
\* request inputs; "" stands for a missing or empty field (falsy in JS)
Emails == {"", "a", "b", "c"}
RegPasswords == {"", "p"}
LoginPasswords == {"", "p", "q"}
\* results Math.random() may lead genReferral to
GenCodes == {"GG1", "GG2"}
\* referralCode values a client may send
SuppliedCodes == {"", "GG1"}
\* salts bcrypt may draw
Salts == {1}

(* ------------------------- program constants -------------------------- *)
Commission == 1000
SaltRounds == 10
TokenTTL == 7
Secret == "devsecret"

VARIABLES
  users,     \* the User collection, in insertion order; _id = position
  now,       \* the clock, in days
  regCount,  \* registrations started so far
  reg,       \* per register handler: its position and its locals
  login,     \* the login handler: its position and its locals
  guarded    \* the request to a route behind auth: its position and its locals

vars == <<users, now, regCount, reg, login, guarded>>

(* ------------------------------ helpers ------------------------------- *)
NoToken == [id |-> 0, email |-> "", exp |-> 0, sig |-> <<>>]
NoDoc == [id |-> 0, balance |-> 0]
NoHash == [cost |-> 0, salt |-> 0, digest |-> <<>>]
NoRes == [status |-> 0, body |-> "", token |-> NoToken, referralCode |-> ""]

\* res.status(s).json({error: msg})
ErrorRes(s, msg) == [status |-> s, body |-> msg, token |-> NoToken, referralCode |-> ""]

\* bcrypt.hash(password, rounds): a salted one-way digest
bcryptHash(password, rounds, salt) ==
  [cost |-> rounds, salt |-> salt, digest |-> <<rounds, salt, password>>]

\* variant: the result of the comparison not used
MutCompareAlwaysTrue(password, h) == TRUE

\* bcrypt.compare(password, hash): recompute with the salt the hash carries
bcryptCompare(password, h) ==
  bcryptHash(password, h.cost, h.salt).digest = h.digest

\* jwt.sign({id, email}, secret, {expiresIn: '7d'})
jwtSign(id, email, secret) ==
  [id |-> id, email |-> email, exp |-> now + TokenTTL,
   sig |-> <<secret, id, email, now + TokenTTL>>]

\* variant: the signature checked and the expiry ignored
MutVerifyIgnoresExpiry(t, secret) == t.sig = <<secret, t.id, t.email, t.exp>>

\* jwt.verify(token, secret): signature over the payload, and not expired
jwtVerify(t, secret) ==
  /\ t.sig = <<secret, t.id, t.email, t.exp>>
  /\ now < t.exp

Ids == 1..Len(users)

\* User.findOne({email}): ids of the documents a query on email matches
ByEmail(e) == {i \in Ids : users[i].email = e}

\* User.findOne({referralCode}): ids of the documents the query matches
ByReferral(c) == {i \in Ids : users[i].referralCode = c}

\* variant: the email path declared without `unique: true`
MutNoUniqueIndex(doc) == TRUE

\* the unique index of UserSchema.email: may this document be inserted?
UniqueIndexAdmits(doc) == ByEmail(doc.email) = {}

\* variant: the commission assigned instead of added
MutCreditAssign(balance) == Commission

\* variant: a commission of 100 instead of 1000
MutCreditHundred(balance) == balance + 100

\* sponsor.balance = (sponsor.balance || 0) + 1000
Credit(balance) == balance + Commission

\* variant: an atomic increment ($inc) in place of the $set of the copy
MutSaveSponsorInc(sponsor) ==
  [users EXCEPT ![sponsor.id].balance = @ + Commission]

\* sponsor.save(): $set of the modified path on the document of that _id
SaveSponsor(sponsor) ==
  [users EXCEPT ![sponsor.id].balance = sponsor.balance]

IdleReg ==
  [pc |-> "idle", email |-> "", password |-> "", referralCode |-> "",
   hash |-> NoHash, userReferral |-> "", sponsor |-> NoDoc, res |-> NoRes]

\* the handler returns: its locals go out of scope; the response stays, and
\* with it the sponsor copy the request saved, to tell which requests credited
RegRespond(r, response) ==
  reg' = [reg EXCEPT ![r] = [IdleReg EXCEPT !.pc = "done",
                                            !.sponsor = reg[r].sponsor,
                                            !.res = response]]

NoUser == [id |-> 0, email |-> "", passwordHash |-> NoHash]
IdleLogin ==
  [pc |-> "idle", email |-> "", password |-> "", user |-> NoUser, res |-> NoRes]

\* the handler returns: its locals go out of scope, the response stays
LoginRespond(response) ==
  login' = [IdleLogin EXCEPT !.pc = "done", !.res = response]

\* the Authorization header: absent, or the scheme word followed by the
\* space-separated words after it (the scheme word itself is never read)
NoHeader == [present |-> FALSE, credentials |-> <<>>]
BearerHeader(ws) == [present |-> TRUE, credentials |-> ws]

\* the document without its passwordHash: .select('-passwordHash')
NoProfile == [id |-> 0, email |-> "", referralCode |-> "", referredBy |-> "", balance |-> 0]
SelectWithoutHash(i) ==
  [id |-> i, email |-> users[i].email, referralCode |-> users[i].referralCode,
   referredBy |-> users[i].referredBy, balance |-> users[i].balance]

IdleGuarded ==
  [pc |-> "idle", route |-> "", header |-> NoHeader, user |-> NoToken,
   status |-> 0, body |-> "", doc |-> NoProfile]

(* ------------------------------ Init ---------------------------------- *)
Init ==
  /\ users = <<>>
  /\ now = 0
  /\ regCount = 0
  /\ reg = [r \in RegSlots |-> IdleReg]
  /\ login = IdleLogin
  /\ guarded = IdleGuarded

(* ---------------- POST /api/auth/register (lines 46-87) --------------- *)
\* lines 48-50: the body is read and checked; then findOne({email}) is awaited
RegReceive(r, max) ==
  /\ reg[r].pc \in {"idle", "done"}
  /\ regCount < max
  /\ regCount' = regCount + 1
  /\ \E e \in Emails, p \in RegPasswords, c \in SuppliedCodes :
       IF e = "" \/ p = ""
       THEN reg' = [reg EXCEPT ![r] = [IdleReg EXCEPT
                      !.pc = "done",
                      !.res = ErrorRes(400, "Email and password required")]]
       ELSE reg' = [reg EXCEPT ![r] = [IdleReg EXCEPT !.pc = "findExists",
                                                    !.email = e,
                                                    !.password = p,
                                                    !.referralCode = c]]
  /\ UNCHANGED <<users, now, login, guarded>>

\* lines 53-54: exists = await User.findOne({email})
RegFindExists(r) ==
  /\ reg[r].pc = "findExists"
  /\ IF ByEmail(reg[r].email) # {}
     THEN RegRespond(r, ErrorRes(400, "Email already registered"))
     ELSE reg' = [reg EXCEPT ![r].pc = "hash"]
  /\ UNCHANGED <<users, now, regCount, login, guarded>>

\* lines 57-69: hash = await bcrypt.hash(password, 10); genReferral(); new User
RegHash(r) ==
  /\ reg[r].pc = "hash"
  /\ \E s \in Salts, g \in GenCodes :
       reg' = [reg EXCEPT
                 ![r].hash = bcryptHash(reg[r].password, SaltRounds, s),
                 ![r].userReferral = g,
                 ![r].pc = IF reg[r].referralCode # "" THEN "findSponsor"
                                                       ELSE "saveUser"]
  /\ UNCHANGED <<users, now, regCount, login, guarded>>

\* lines 70-73: sponsor = await User.findOne({referralCode}); credit the copy
RegFindSponsor(r) ==
  /\ reg[r].pc = "findSponsor"
  /\ IF ByReferral(reg[r].referralCode) = {}
     THEN reg' = [reg EXCEPT ![r].pc = "saveUser"]
     ELSE \E i \in ByReferral(reg[r].referralCode) :
            reg' = [reg EXCEPT
                      ![r].sponsor = [id |-> i, balance |-> Credit(users[i].balance)],
                      ![r].pc = "saveSponsor"]
  /\ UNCHANGED <<users, now, regCount, login, guarded>>

\* line 74: await sponsor.save()
RegSaveSponsor(r) ==
  /\ reg[r].pc = "saveSponsor"
  /\ users' = SaveSponsor(reg[r].sponsor)
  /\ reg' = [reg EXCEPT ![r].pc = "saveUser"]
  /\ UNCHANGED <<now, regCount, login, guarded>>

\* the document of `new User({...})` (lines 60-66)
NewUser(r) ==
  [email |-> reg[r].email, passwordHash |-> reg[r].hash,
   referralCode |-> reg[r].userReferral, referredBy |-> reg[r].referralCode,
   balance |-> 0]

\* lines 78-86: await u.save(); sign the token and answer, or the catch
RegSaveUser(r) ==
  /\ reg[r].pc = "saveUser"
  /\ IF UniqueIndexAdmits(NewUser(r))
     THEN /\ users' = Append(users, NewUser(r))
          /\ RegRespond(r, [status |-> 200, body |-> "Registered successfully",
                            token |-> jwtSign(Len(users) + 1, reg[r].email, Secret),
                            referralCode |-> reg[r].userReferral])
     ELSE /\ users' = users
          /\ RegRespond(r, ErrorRes(500, "Server error"))
  /\ UNCHANGED <<now, regCount, login, guarded>>

Register(r, max) ==
  \/ RegReceive(r, max)
  \/ RegFindExists(r)
  \/ RegHash(r)
  \/ RegFindSponsor(r)
  \/ RegSaveSponsor(r)
  \/ RegSaveUser(r)

(* ----------------- POST /api/auth/login (lines 90-107) ---------------- *)
\* lines 92-93: the body is read and checked; then findOne({email}) is awaited
LoginReceive ==
  /\ login.pc \in {"idle", "done"}
  /\ \E e \in Emails, p \in LoginPasswords :
       IF e = "" \/ p = ""
       THEN LoginRespond(ErrorRes(400, "Email and password required"))
       ELSE login' = [IdleLogin EXCEPT !.pc = "findUser", !.email = e, !.password = p]
  /\ UNCHANGED <<users, now, regCount, reg, guarded>>

\* lines 95-96: user = await User.findOne({email})
LoginFindUser ==
  /\ login.pc = "findUser"
  /\ IF ByEmail(login.email) = {}
     THEN LoginRespond(ErrorRes(400, "Invalid credentials"))
     ELSE \E i \in ByEmail(login.email) :
            login' = [login EXCEPT
                        !.user = [id |-> i, email |-> users[i].email,
                                  passwordHash |-> users[i].passwordHash],
                        !.pc = "compare"]
  /\ UNCHANGED <<users, now, regCount, reg, guarded>>

\* lines 98-102: ok = await bcrypt.compare(password, user.passwordHash)
LoginCompare ==
  /\ login.pc = "compare"
  /\ IF bcryptCompare(login.password, login.user.passwordHash)
     THEN LoginRespond([status |-> 200, body |-> "Login successful",
                        token |-> jwtSign(login.user.id, login.user.email, Secret),
                        referralCode |-> ""])
     ELSE LoginRespond(ErrorRes(400, "Invalid credentials"))
  /\ UNCHANGED <<users, now, regCount, reg, guarded>>

Login == LoginReceive \/ LoginFindUser \/ LoginCompare

(* ------------------- auth middleware (lines 110-121) ------------------ *)
\* line 113: header.split(' ')[1]
SecondWord(header) ==
  IF Len(header.credentials) >= 1 THEN <<header.credentials[1]>> ELSE <<>>

\* lines 114-120: does jwt.verify return (TRUE) or throw (FALSE)?
Verifies(header) ==
  /\ SecondWord(header) # <<>>
  /\ jwtVerify(SecondWord(header)[1], Secret)

\* tokens a client holds: those in the responses it has been sent
Issued ==
  {reg[r].res.token : r \in {x \in RegSlots : reg[x].res.status = 200}}
    \cup (IF login.res.status = 200 THEN {login.res.token} ELSE {})

\* a token whose payload was edited after signing
Tampered(t) == {[t EXCEPT !.id = i] : i \in Ids \ {t.id}}

\* a token signed with a key that is not the server's secret
Forged(t) == [t EXCEPT !.sig = <<"guess", t.id, t.email, t.exp>>]

Presentable ==
  Issued \cup UNION {Tampered(t) : t \in Issued} \cup {Forged(t) : t \in Issued}

Headers ==
  {NoHeader, BearerHeader(<<>>)} \cup {BearerHeader(<<t>>) : t \in Presentable}

\* a request to GET /api/user/me or POST /api/payment/process arrives
GuardedReceive ==
  /\ guarded.pc \in {"idle", "done"}
  /\ \E route \in {"me", "pay"}, h \in Headers :
       guarded' = [IdleGuarded EXCEPT !.pc = "auth", !.route = route, !.header = h]
  /\ UNCHANGED <<users, now, regCount, reg, login>>

\* the handler returns: the request goes out of scope, the response stays
GuardedRespond(status, body, doc) ==
  guarded' = [IdleGuarded EXCEPT !.pc = "done", !.status = status,
                                 !.body = body, !.doc = doc]

\* auth (lines 110-121), then the route's handler up to its first await:
\* POST /api/payment/process answers at once (line 139),
\* GET /api/user/me awaits User.findById (line 126)
GuardedAuth ==
  /\ guarded.pc = "auth"
  /\ IF ~guarded.header.present
     THEN GuardedRespond(401, "No token", NoProfile)
     ELSE IF ~Verifies(guarded.header)
     THEN GuardedRespond(401, "Invalid token", NoProfile)
     ELSE IF guarded.route = "pay"
     THEN GuardedRespond(200, "Payment processing simulated", NoProfile)
     ELSE guarded' = [guarded EXCEPT !.pc = "findById",
                                     !.header = NoHeader,
                                     !.user = SecondWord(guarded.header)[1]]
  /\ UNCHANGED <<users, now, regCount, reg, login>>

\* lines 126-128: user = await User.findById(req.user.id).select('-passwordHash')
MeFindById ==
  /\ guarded.pc = "findById"
  /\ IF guarded.user.id \in Ids
     THEN GuardedRespond(200, "", SelectWithoutHash(guarded.user.id))
     ELSE GuardedRespond(404, "User not found", NoProfile)
  /\ UNCHANGED <<users, now, regCount, reg, login>>

Guarded == GuardedReceive \/ GuardedAuth \/ MeFindById

\* a day passes
Tick ==
  /\ now < MaxDay
  /\ now' = now + 1
  /\ UNCHANGED <<users, regCount, reg, login, guarded>>

(* --------------------------- specifications --------------------------- *)
\* concurrent registrations
Next == \E r \in RegSlots : Register(r, MaxReg)

Spec == Init /\ [][Next]_vars

\* one registration at a time, with logins
NextLogin == Register(1, MaxAuthReg) \/ Login

SpecLogin == Init /\ [][NextLogin]_vars

\* one registration at a time, with requests to the guarded routes and the clock
NextGuard == Register(1, MaxAuthReg) \/ Guarded \/ Tick

SpecGuard == Init /\ [][NextGuard]_vars

(* ------------------------------ claims -------------------------------- *)
\* registration r takes a step
RegStep(r) == reg'[r] # reg[r]

\* the accounts persisted before the step keep their balance
BalancesUnchanged == \A i \in Ids : users'[i].balance = users[i].balance

\* ids of the accounts with email e after the step
ByEmailAfter(e) == {i \in 1..Len(users') : users'[i].email = e}

\* C1 as stated: the credit write of a registration whose referralCode matches a
\* persisted account leaves that sponsor's balance exactly 1000 above what it was
\* before the write, and a registration with no referralCode, or one that
\* matches no account, changes no balance
C1_CreditIsExactly1000 ==
  [][\A r \in RegSlots :
       /\ (reg[r].pc = "saveSponsor" /\ RegStep(r)) =>
            users'[reg[r].sponsor.id].balance
              = users[reg[r].sponsor.id].balance + Commission
       /\ (reg[r].pc # "saveSponsor" /\ RegStep(r)) => BalancesUnchanged]_vars

\* C1 amended: the sponsor lookup returns an account holding the supplied code
\* and the credit write sets that account's balance to exactly 1000 more than
\* the balance the lookup read, changing no other balance; a registration with
\* no referralCode, or with one no account holds at the lookup, changes no balance
C1_CreditIsReadPlus1000 ==
  [][\A r \in RegSlots :
       /\ (reg[r].pc = "hash" /\ RegStep(r)) =>
            /\ BalancesUnchanged
            /\ reg'[r].pc = "saveUser" <=> reg[r].referralCode = ""
       /\ (reg[r].pc = "findSponsor" /\ RegStep(r)) =>
            /\ BalancesUnchanged
            /\ reg'[r].pc = "saveUser" <=> ByReferral(reg[r].referralCode) = {}
            /\ reg'[r].pc = "saveSponsor" =>
                 /\ reg'[r].sponsor.id \in ByReferral(reg[r].referralCode)
                 /\ reg'[r].sponsor.balance
                      = users[reg'[r].sponsor.id].balance + Commission
       /\ (reg[r].pc = "saveSponsor" /\ RegStep(r)) =>
            /\ Len(users') = Len(users)
            /\ \A i \in Ids :
                 users'[i].balance = IF i = reg[r].sponsor.id
                                     THEN reg[r].sponsor.balance
                                     ELSE users[i].balance
       /\ (reg[r].pc \notin {"hash", "findSponsor", "saveSponsor"} /\ RegStep(r)) =>
            BalancesUnchanged]_vars

\* C1 witness: a credit has just been written and the sponsor holds 1000
C1_SponsorCredited ==
  \E r \in RegSlots :
    /\ reg[r].pc = "saveUser"
    /\ reg[r].sponsor.id \in Ids
    /\ reg[r].sponsor.balance = Commission
    /\ users[reg[r].sponsor.id].balance = Commission

\* C2 as stated: a registration that ends while another request's account holds
\* its email ends with 400 'Email already registered', and no step of it alters
\* that account
C2_DuplicateEmailRejected ==
  [][\A r \in RegSlots :
       (reg[r].pc \notin {"idle", "done"} /\ RegStep(r)) =>
          /\ \A i \in ByEmail(reg[r].email) : users'[i] = users[i]
          /\ (reg'[r].pc = "done" /\ ByEmail(reg[r].email) # {}) =>
               reg'[r].res = ErrorRes(400, "Email already registered")]_vars

\* C3: no two persisted accounts have the same email
C3_EmailsUnique ==
  \A i, j \in Ids : users[i].email = users[j].email => i = j

\* C3 witness: a registration that passed the exists check is about to save an
\* email that another registration has persisted meanwhile
C3_RaceOnEmail ==
  \E r \in RegSlots : reg[r].pc = "saveUser" /\ ByEmail(reg[r].email) # {}

\* C4 as stated: a registration whose email no account held when the handler
\* looked it up ends with the success message, a token and its generated
\* referral code, having persisted exactly one account with that email
C4_FreshEmailSucceeds ==
  [][\A r \in RegSlots :
       (reg[r].pc \in {"hash", "findSponsor", "saveSponsor", "saveUser"}
          /\ reg'[r].pc = "done") =>
          /\ reg'[r].res.status = 200
          /\ reg'[r].res.body = "Registered successfully"
          /\ reg'[r].res.referralCode = reg[r].userReferral
          /\ reg'[r].res.token.email = reg[r].email
          /\ Cardinality(ByEmailAfter(reg[r].email)) = 1]_vars

\* C7 as stated: a registration whose generated referral code an account already
\* holds is rejected by the store and ends with 500 'Server error', so that no
\* two persisted accounts share a referral code
C7_ReferralCodesUnique ==
  /\ [](\A i, j \in Ids : users[i].referralCode = users[j].referralCode => i = j)
  /\ [][\A r \in RegSlots :
          (reg[r].pc = "saveUser" /\ RegStep(r)
             /\ ByReferral(reg[r].userReferral) # {}) =>
             /\ reg'[r].res = ErrorRes(500, "Server error")
             /\ users' = users]_vars

\* C8 as stated: when persisting the new account fails, the request ends with
\* 500 'Server error', no account with the new email exists, and the sponsor
\* keeps the credit written before
C8_FailedSaveLeavesNoAccount ==
  [][\A r \in RegSlots :
       (reg[r].pc = "saveUser" /\ reg'[r].pc = "done" /\ reg'[r].res.status # 200) =>
          /\ reg'[r].res = ErrorRes(500, "Server error")
          /\ ByEmailAfter(reg[r].email) = {}
          /\ BalancesUnchanged]_vars

\* C9: a credit write made with a stale copy loses a credit: when registration q
\* has written its credit and registration r, which read the same balance of the
\* same sponsor, writes its own, the sponsor's balance does not move
C9_StaleWriteAddsNothing ==
  [][\A r, q \in RegSlots :
       (/\ r # q
        /\ reg[r].pc = "saveSponsor" /\ RegStep(r)
        /\ reg[q].pc = "saveUser"
        /\ reg[q].sponsor = reg[r].sponsor
        /\ users[reg[q].sponsor.id].balance = reg[q].sponsor.balance) =>
          users'[reg[r].sponsor.id].balance = users[reg[r].sponsor.id].balance]_vars

\* C9 witness: the first account is the only holder of its code, the only two
\* other registrations both named that code, both saved a credit to it and both
\* succeeded, and the sponsor's balance is 1000, not 2000
C9_LostUpdate ==
  /\ regCount = 3
  /\ Len(users) = 3
  /\ ByReferral(users[1].referralCode) = {1}
  /\ users[2].referredBy = users[1].referralCode
  /\ users[3].referredBy = users[1].referralCode
  /\ users[2].email # users[3].email
  /\ {reg[r].res.token.id : r \in RegSlots} = {2, 3}
  /\ \A r \in RegSlots : reg[r].pc = "done" /\ reg[r].res.status = 200
  /\ \A r \in RegSlots : reg[r].sponsor.id = 1
  /\ users[1].balance = Commission

\* every balance is a non-negative multiple of 1000
BalancesAreMultiples ==
  \A i \in Ids : users[i].balance >= 0 /\ users[i].balance % Commission = 0

\* C10 as stated: no balance ever decreases, and every balance is a
\* non-negative multiple of 1000
C10_BalanceNeverDecreases ==
  /\ []BalancesAreMultiples
  /\ [][\A i \in Ids : users'[i].balance >= users[i].balance]_vars

\* C10 amended: every balance is a non-negative multiple of 1000, and a balance
\* decreases only by the credit write of a registration holding a stale copy,
\* which leaves it at that copy's value, at least 1000
C10_BalanceDecreasesOnlyByStaleWrite ==
  /\ []BalancesAreMultiples
  /\ [][\A i \in Ids :
          users'[i].balance < users[i].balance =>
            \E r \in RegSlots :
              /\ reg[r].pc = "saveSponsor" /\ RegStep(r)
              /\ reg[r].sponsor.id = i
              /\ users'[i].balance = reg[r].sponsor.balance
              /\ users'[i].balance >= Commission]_vars

\* C10 witness: a registration is about to write a balance below the stored one
C10_StaleWritePending ==
  \E r \in RegSlots :
    /\ reg[r].pc = "saveSponsor"
    /\ reg[r].sponsor.balance < users[reg[r].sponsor.id].balance

\* password p is the one hash h was made from
MadeFrom(h, p) == h.digest = <<h.cost, h.salt, p>>

\* t is a token signed with the server's secret for persisted account i
TokenOf(t, i) ==
  /\ t.id = i
  /\ t.email = users[i].email
  /\ t.sig = <<Secret, i, users[i].email, t.exp>>

InvalidCredentials == ErrorRes(400, "Invalid credentials")

\* C5: the lookup of a login ends the request with 400 'Invalid credentials'
\* exactly when no account has the email; otherwise the request succeeds exactly
\* when the password is the one the account's hash was made from, with a token
\* for that account's id and email, and ends with the same 400 'Invalid
\* credentials' when it is not; no step of a login changes the store
C5_LoginIffCredentialsMatch ==
  [][(login' # login) =>
       /\ users' = users
       /\ login.pc = "findUser" =>
            IF ByEmail(login.email) = {}
            THEN login'.pc = "done" /\ login'.res = InvalidCredentials
            ELSE login'.pc = "compare" /\ login'.user.id \in ByEmail(login.email)
       /\ login.pc = "compare" =>
            /\ login'.pc = "done"
            /\ login.user.id \in ByEmail(login.email)
            /\ IF MadeFrom(users[login.user.id].passwordHash, login.password)
               THEN /\ login'.res.status = 200
                    /\ login'.res.body = "Login successful"
                    /\ TokenOf(login'.res.token, login.user.id)
                    /\ login'.res.token.exp = now + TokenTTL
               ELSE login'.res = InvalidCredentials]_vars

\* C5 witness: a login has succeeded for the second account
C5_LoginSucceeded ==
  /\ login.pc = "done"
  /\ login.res.status = 200
  /\ login.res.token.id = 2

\* the header carries, as its second word, an unexpired token the server signed
\* for a persisted account
CarriesValidToken(h) ==
  /\ h.present
  /\ Len(h.credentials) >= 1
  /\ \E i \in Ids : TokenOf(h.credentials[1], i)
  /\ now < h.credentials[1].exp

\* C6: auth answers 401 'No token' to a request without the header and 401
\* 'Invalid token' to one whose token does not verify, so that neither handler
\* answers; with a valid token the payment stub answers, and /api/user/me
\* answers 200 with the account of the token's id, without its passwordHash;
\* no step of these requests changes the store
C6_GuardBeforeHandlers ==
  /\ [](guarded.status \in {0, 200, 401})
  /\ [][(guarded' # guarded) =>
          /\ users' = users
          /\ guarded.pc = "auth" =>
               IF ~guarded.header.present
               THEN /\ guarded'.pc = "done"
                    /\ guarded'.status = 401 /\ guarded'.body = "No token"
               ELSE IF ~CarriesValidToken(guarded.header)
               THEN /\ guarded'.pc = "done"
                    /\ guarded'.status = 401 /\ guarded'.body = "Invalid token"
               ELSE IF guarded.route = "pay"
               THEN guarded'.pc = "done" /\ guarded'.status = 200
               ELSE /\ guarded'.pc = "findById"
                    /\ guarded'.user.id = guarded.header.credentials[1].id
          /\ guarded.pc = "findById" =>
               /\ guarded'.pc = "done"
               /\ guarded'.status = 200
               /\ guarded.user.id \in Ids
               /\ guarded'.doc.id = guarded.user.id
               /\ guarded'.doc.email = users[guarded.user.id].email
               /\ guarded'.doc.balance = users[guarded.user.id].balance
               /\ "passwordHash" \notin DOMAIN guarded'.doc]_vars

\* C6 witness: /api/user/me has answered with the second account
C6_ProfileReturned ==
  /\ guarded.pc = "done"
  /\ guarded.status = 200
  /\ guarded.doc.id = 2

\* a request carrying an expired token of the server is waiting for auth
C6_ExpiredTokenPresented ==
  /\ guarded.pc = "auth"
  /\ guarded.header.present
  /\ Len(guarded.header.credentials) >= 1
  /\ \E i \in Ids : TokenOf(guarded.header.credentials[1], i)
  /\ now >= guarded.header.credentials[1].exp

====
